---------------------------- MODULE Spec2Model ----------------------------
(* Model of the rcl wait set (rcl/wait.h) and guard condition               *)
(* (rcl/guard_condition.h).  The repository contains the two public        *)
(* headers; every operation is modelled from its declaration and the       *)
(* contract documented above it.  The middleware (rmw) that blocks and     *)
(* reports readiness, the node and the allocator are external: they are    *)
(* modelled as a fault-free environment (no allocation failure, no         *)
(* transport failure, the node stays valid).                               *)
(*                                                                         *)
(* Threads: one thread owns the wait set and makes every call that is      *)
(* documented as not thread-safe; while it is blocked in rcl_wait the      *)
(* only calls are rcl_trigger_guard_condition from other threads.          *)
EXTENDS Integers, Sequences, FiniteSets, TLC

\* ------------------------------------------------------------------ bounds
MaxSubs == 2
MaxGcs == 1

\* --------------------------------------------------------------- handles
Subs == {"S1", "S2"}
Gcs == {"G1"}
NULL == "NULL"

SubSizes == 0..MaxSubs
GcSizes == 0..MaxGcs

\* Timeout argument of rcl_wait: NULL pointer, {0,0}, or a non-zero time.
Timeouts == {"indefinite", "zero", "positive"}

VARIABLES
  wait_set,         \* the rcl_wait_set_t struct
  guard_condition,  \* lifecycle of each rcl_guard_condition_t
  triggered,        \* guard conditions triggered and not yet reported
  reported,         \* items the middleware reported ready to the rcl_wait
                    \* that returned last (empty after any other call)
  timeout,          \* timeout argument of the rcl_wait in progress or
                    \* returned last ("none" after any other call)
  blocked,          \* a thread is blocked in rmw_wait, inside rcl_wait
  op,               \* last API call
  ret,              \* its return code ("blocked": has not returned)
  arg,              \* size argument of the last call, when it was a resize
  old,              \* <<size, offset>> that the resized set had before the
                    \* last call, when it was a resize
  sub_calls,        \* handles passed to add_subscription since the
                    \* subscription set was last made fresh
  sub_fresh,        \* "init", "clear" or "resize": the call that last reset
                    \* the subscription set, when no wait or fini followed
                    \* it; "no" otherwise
  gc_calls,         \* the same two for the guard condition set
  gc_fresh

vars == <<wait_set, guard_condition, triggered, reported, timeout, blocked,
          op, ret, arg, old, sub_calls, sub_fresh, gc_calls, gc_fresh>>

ghost == <<sub_calls, sub_fresh, gc_calls, gc_fresh>>
env == <<guard_condition, triggered>>

Min(a, b) == IF a < b THEN a ELSE b

\* An array of n NULL pointers (n = 0: the NULL array).
NullArray(n) == [i \in 1..n |-> NULL]

\* rcl_get_zero_initialized_wait_set(): every member NULL / 0 / false.
\* An array is the sequence of its entries, the NULL array the empty
\* sequence.  The impl member is opaque and has no documented behaviour; it
\* is left out.
rcl_get_zero_initialized_wait_set ==
  [subscriptions |-> <<>>,
   size_of_subscriptions |-> 0,
   current_subscription_offset |-> 0,
   guard_conditions |-> <<>>,
   size_of_guard_conditions |-> 0,
   current_guard_condition_offset |-> 0,
   allocator |-> NULL,
   pruned |-> FALSE]

IsZeroInitialized(ws) == ws = rcl_get_zero_initialized_wait_set

\* The non-NULL items of the two sets.
PresentSubs(ws) ==
  {ws.subscriptions[i] : i \in DOMAIN ws.subscriptions} \ {NULL}
PresentGcs(ws) ==
  {ws.guard_conditions[i] : i \in DOMAIN ws.guard_conditions} \ {NULL}

\* A call o made by the thread that owns the wait set: no rcl_wait of it
\* is in progress.
Call(o) ==
  /\ ~blocked
  /\ op' = o
  /\ reported' = {}
  /\ timeout' = "none"
  /\ UNCHANGED blocked

Init ==
  /\ wait_set = rcl_get_zero_initialized_wait_set
  /\ guard_condition = [g \in Gcs |-> "uninitialized"]
  /\ triggered = {}
  /\ reported = {}
  /\ timeout = "none"
  /\ blocked = FALSE
  /\ op = "none"
  /\ ret = "none"
  /\ arg = 0
  /\ old = <<>>
  /\ sub_calls = <<>>
  /\ sub_fresh = "no"
  /\ gc_calls = <<>>
  /\ gc_fresh = "no"

\* ------------------------------------------------- wait set: init / fini
\* "Calling this function on a wait set that has already been initialized
\* will result in an error": RCL_RET_ALREADY_INIT if the wait set is not
\* zero initialized.  Sets the allocator, pruned is false.
\* Variant: "already initialized" judged by the storage pointers alone.
rcl_wait_set_init_StorageCheck(ns, ng) ==
  /\ Call("init")
  /\ IF wait_set.subscriptions # <<>> \/ wait_set.guard_conditions # <<>>
     THEN /\ ret' = "RCL_RET_ALREADY_INIT"
          /\ UNCHANGED <<wait_set, ghost>>
     ELSE /\ ret' = "RCL_RET_OK"
          /\ wait_set' = [subscriptions |-> NullArray(ns),
                          size_of_subscriptions |-> ns,
                          current_subscription_offset |-> 0,
                          guard_conditions |-> NullArray(ng),
                          size_of_guard_conditions |-> ng,
                          current_guard_condition_offset |-> 0,
                          allocator |-> "allocator",
                          pruned |-> FALSE]
          /\ sub_calls' = <<>> /\ sub_fresh' = "init"
          /\ gc_calls' = <<>> /\ gc_fresh' = "init"
  /\ UNCHANGED env /\ arg' = 0 /\ old' = <<>>

rcl_wait_set_init(ns, ng) ==
  /\ Call("init")
  /\ IF ~IsZeroInitialized(wait_set)
     THEN /\ ret' = "RCL_RET_ALREADY_INIT"
          /\ UNCHANGED <<wait_set, ghost>>
     ELSE /\ ret' = "RCL_RET_OK"
          /\ wait_set' = [subscriptions |-> NullArray(ns),
                          size_of_subscriptions |-> ns,
                          current_subscription_offset |-> 0,
                          guard_conditions |-> NullArray(ng),
                          size_of_guard_conditions |-> ng,
                          current_guard_condition_offset |-> 0,
                          allocator |-> "allocator",
                          pruned |-> FALSE]
          /\ sub_calls' = <<>> /\ sub_fresh' = "init"
          /\ gc_calls' = <<>> /\ gc_fresh' = "init"
  /\ UNCHANGED env /\ arg' = 0 /\ old' = <<>>

\* Variant: the storage is released but the offsets are not reset.
rcl_wait_set_fini_KeepsOffsets ==
  /\ Call("fini")
  /\ ret' = "RCL_RET_OK"
  /\ wait_set' =
       [rcl_get_zero_initialized_wait_set EXCEPT
          !.current_subscription_offset =
             wait_set.current_subscription_offset,
          !.current_guard_condition_offset =
             wait_set.current_guard_condition_offset]
  /\ sub_calls' = <<>> /\ sub_fresh' = "no"
  /\ gc_calls' = <<>> /\ gc_fresh' = "no"
  /\ UNCHANGED env /\ arg' = 0 /\ old' = <<>>

rcl_wait_set_fini ==
  /\ Call("fini")
  /\ ret' = "RCL_RET_OK"
  /\ wait_set' = rcl_get_zero_initialized_wait_set
  /\ sub_calls' = <<>> /\ sub_fresh' = "no"
  /\ gc_calls' = <<>> /\ gc_fresh' = "no"
  /\ UNCHANGED env /\ arg' = 0 /\ old' = <<>>

\* The calls recorded since the set was made fresh: kept while the set is
\* fresh, one call past its size.
LogCall(fresh, calls, h, size) ==
  IF fresh # "no" /\ Len(calls) <= size THEN Append(calls, h) ELSE calls

\* ------------------------------------------- wait set: subscription set
\* add: RCL_RET_NOT_INIT on the zero initialized wait set; fails while the
\* wait set is pruned (no code is documented for that: RCL_RET_ERROR);
\* RCL_RET_WAIT_SET_FULL if the set is full; otherwise the pointer is stored
\* in the next empty spot.
\* clear: sets the entries to NULL, so that the next empty spot is the first
\* one again and adding is possible after a wait (pruned is reset).
\* resize: can be called on a zero initialized wait set, whose allocator
\* member it leaves alone; after it all values are NULL as after clear
\* (when the size already matches only the allocation is skipped).
\* Variant: the full check is off by one.
rcl_wait_set_add_subscription_OffByOne(s) ==
  /\ Call("add_subscription")
  /\ sub_calls' = LogCall(sub_fresh, sub_calls, s,
                          wait_set.size_of_subscriptions)
  /\ IF IsZeroInitialized(wait_set)
     THEN ret' = "RCL_RET_NOT_INIT" /\ UNCHANGED wait_set
     ELSE IF wait_set.pruned
     THEN ret' = "RCL_RET_ERROR" /\ UNCHANGED wait_set
     ELSE IF ~(wait_set.current_subscription_offset
                 <= wait_set.size_of_subscriptions)
     THEN ret' = "RCL_RET_WAIT_SET_FULL" /\ UNCHANGED wait_set
     ELSE /\ ret' = "RCL_RET_OK"
          /\ wait_set' =
               [wait_set EXCEPT
                  !.subscriptions =
                     [i \in DOMAIN @ |->
                        IF i = wait_set.current_subscription_offset + 1
                        THEN s ELSE @[i]],
                  !.current_subscription_offset = @ + 1]
  /\ arg' = 0 /\ old' = <<>>
  /\ UNCHANGED <<env, sub_fresh, gc_calls, gc_fresh>>

\* Variant: the add does not look at the pruned flag.
rcl_wait_set_add_subscription_IgnoresPruned(s) ==
  /\ Call("add_subscription")
  /\ sub_calls' = LogCall(sub_fresh, sub_calls, s,
                          wait_set.size_of_subscriptions)
  /\ IF IsZeroInitialized(wait_set)
     THEN ret' = "RCL_RET_NOT_INIT" /\ UNCHANGED wait_set
     ELSE IF ~(wait_set.current_subscription_offset
                 < wait_set.size_of_subscriptions)
     THEN ret' = "RCL_RET_WAIT_SET_FULL" /\ UNCHANGED wait_set
     ELSE /\ ret' = "RCL_RET_OK"
          /\ wait_set' =
               [wait_set EXCEPT
                  !.subscriptions[wait_set.current_subscription_offset + 1]
                     = s,
                  !.current_subscription_offset = @ + 1]
  /\ arg' = 0 /\ old' = <<>>
  /\ UNCHANGED <<env, sub_fresh, gc_calls, gc_fresh>>

\* Variant: an add to a full set stores the pointer in the last slot before
\* it reports that the set is full.
rcl_wait_set_add_subscription_OverwritesLast(s) ==
  /\ Call("add_subscription")
  /\ sub_calls' = LogCall(sub_fresh, sub_calls, s,
                          wait_set.size_of_subscriptions)
  /\ IF IsZeroInitialized(wait_set)
     THEN ret' = "RCL_RET_NOT_INIT" /\ UNCHANGED wait_set
     ELSE IF wait_set.pruned
     THEN ret' = "RCL_RET_ERROR" /\ UNCHANGED wait_set
     ELSE IF ~(wait_set.current_subscription_offset
                 < wait_set.size_of_subscriptions)
     THEN /\ ret' = "RCL_RET_WAIT_SET_FULL"
          /\ wait_set' =
               [wait_set EXCEPT
                  !.subscriptions =
                     [i \in DOMAIN @ |->
                        IF i = wait_set.size_of_subscriptions
                        THEN s ELSE @[i]]]
     ELSE /\ ret' = "RCL_RET_OK"
          /\ wait_set' =
               [wait_set EXCEPT
                  !.subscriptions[wait_set.current_subscription_offset + 1]
                     = s,
                  !.current_subscription_offset = @ + 1]
  /\ arg' = 0 /\ old' = <<>>
  /\ UNCHANGED <<env, sub_fresh, gc_calls, gc_fresh>>

rcl_wait_set_add_subscription(s) ==
  /\ Call("add_subscription")
  /\ sub_calls' = LogCall(sub_fresh, sub_calls, s,
                          wait_set.size_of_subscriptions)
  /\ IF IsZeroInitialized(wait_set)
     THEN ret' = "RCL_RET_NOT_INIT" /\ UNCHANGED wait_set
     ELSE IF wait_set.pruned
     THEN ret' = "RCL_RET_ERROR" /\ UNCHANGED wait_set
     ELSE IF ~(wait_set.current_subscription_offset
                 < wait_set.size_of_subscriptions)
     THEN ret' = "RCL_RET_WAIT_SET_FULL" /\ UNCHANGED wait_set
     ELSE /\ ret' = "RCL_RET_OK"
          /\ wait_set' =
               [wait_set EXCEPT
                  !.subscriptions[wait_set.current_subscription_offset + 1]
                     = s,
                  !.current_subscription_offset = @ + 1]
  /\ arg' = 0 /\ old' = <<>>
  /\ UNCHANGED <<env, sub_fresh, gc_calls, gc_fresh>>

\* Variant: the entries are set to NULL but the offset is not reset.
rcl_wait_set_clear_subscriptions_KeepsOffset ==
  /\ Call("clear_subscriptions")
  /\ IF IsZeroInitialized(wait_set)
     THEN /\ ret' = "RCL_RET_NOT_INIT"
          /\ UNCHANGED <<wait_set, sub_calls, sub_fresh>>
     ELSE /\ ret' = "RCL_RET_OK"
          /\ wait_set' =
               [wait_set EXCEPT
                  !.subscriptions =
                     NullArray(wait_set.size_of_subscriptions),
                  !.pruned = FALSE]
          /\ sub_calls' = <<>> /\ sub_fresh' = "clear"
  /\ arg' = 0 /\ old' = <<>>
  /\ UNCHANGED <<env, gc_calls, gc_fresh>>

rcl_wait_set_clear_subscriptions ==
  /\ Call("clear_subscriptions")
  /\ IF IsZeroInitialized(wait_set)
     THEN /\ ret' = "RCL_RET_NOT_INIT"
          /\ UNCHANGED <<wait_set, sub_calls, sub_fresh>>
     ELSE /\ ret' = "RCL_RET_OK"
          /\ wait_set' =
               [wait_set EXCEPT
                  !.subscriptions =
                     NullArray(wait_set.size_of_subscriptions),
                  !.current_subscription_offset = 0,
                  !.pruned = FALSE]
          /\ sub_calls' = <<>> /\ sub_fresh' = "clear"
  /\ arg' = 0 /\ old' = <<>>
  /\ UNCHANGED <<env, gc_calls, gc_fresh>>

\* Variant: the entries that fit in the new size are kept.
rcl_wait_set_resize_subscriptions_KeepsOverlap(size) ==
  /\ Call("resize_subscriptions")
  /\ ret' = "RCL_RET_OK"
  /\ wait_set' =
       [wait_set EXCEPT
          !.subscriptions =
             [i \in 1..size |->
                IF i \in DOMAIN wait_set.subscriptions
                THEN wait_set.subscriptions[i] ELSE NULL],
          !.size_of_subscriptions = size,
          !.current_subscription_offset = 0,
          !.pruned = FALSE]
  /\ sub_calls' = <<>> /\ sub_fresh' = "resize"
  /\ arg' = size
  /\ old' = <<wait_set.size_of_subscriptions,
             wait_set.current_subscription_offset>>
  /\ UNCHANGED <<env, gc_calls, gc_fresh>>

\* Variant: a resize, like a clear, refuses the zero initialized wait set.
rcl_wait_set_resize_subscriptions_NeedsInit(size) ==
  /\ Call("resize_subscriptions")
  /\ IF IsZeroInitialized(wait_set)
     THEN /\ ret' = "RCL_RET_NOT_INIT"
          /\ UNCHANGED <<wait_set, sub_calls, sub_fresh>>
     ELSE /\ ret' = "RCL_RET_OK"
          /\ wait_set' =
               [wait_set EXCEPT
                  !.subscriptions = NullArray(size),
                  !.size_of_subscriptions = size,
                  !.current_subscription_offset = 0,
                  !.pruned = FALSE]
          /\ sub_calls' = <<>> /\ sub_fresh' = "resize"
  /\ arg' = size
  /\ old' = <<wait_set.size_of_subscriptions,
             wait_set.current_subscription_offset>>
  /\ UNCHANGED <<env, gc_calls, gc_fresh>>

rcl_wait_set_resize_subscriptions(size) ==
  /\ Call("resize_subscriptions")
  /\ ret' = "RCL_RET_OK"
  /\ wait_set' =
       [wait_set EXCEPT
          !.subscriptions = NullArray(size),
          !.size_of_subscriptions = size,
          !.current_subscription_offset = 0,
          !.pruned = FALSE]
  /\ sub_calls' = <<>> /\ sub_fresh' = "resize"
  /\ arg' = size
  /\ old' = <<wait_set.size_of_subscriptions,
             wait_set.current_subscription_offset>>
  /\ UNCHANGED <<env, gc_calls, gc_fresh>>

\* ---------------------------------------- wait set: guard condition set
\* "This function behaves exactly the same as for subscriptions."
\* Variant: the full check comes before the zero initialized check.
rcl_wait_set_add_guard_condition_FullFirst(g) ==
  /\ Call("add_guard_condition")
  /\ gc_calls' = LogCall(gc_fresh, gc_calls, g,
                         wait_set.size_of_guard_conditions)
  /\ IF ~(wait_set.current_guard_condition_offset
            < wait_set.size_of_guard_conditions)
     THEN ret' = "RCL_RET_WAIT_SET_FULL" /\ UNCHANGED wait_set
     ELSE IF IsZeroInitialized(wait_set)
     THEN ret' = "RCL_RET_NOT_INIT" /\ UNCHANGED wait_set
     ELSE IF wait_set.pruned
     THEN ret' = "RCL_RET_ERROR" /\ UNCHANGED wait_set
     ELSE /\ ret' = "RCL_RET_OK"
          /\ wait_set' =
               [wait_set EXCEPT
                  !.guard_conditions[
                      wait_set.current_guard_condition_offset + 1] = g,
                  !.current_guard_condition_offset = @ + 1]
  /\ arg' = 0 /\ old' = <<>>
  /\ UNCHANGED <<env, gc_fresh, sub_calls, sub_fresh>>

rcl_wait_set_add_guard_condition(g) ==
  /\ Call("add_guard_condition")
  /\ gc_calls' = LogCall(gc_fresh, gc_calls, g,
                         wait_set.size_of_guard_conditions)
  /\ IF IsZeroInitialized(wait_set)
     THEN ret' = "RCL_RET_NOT_INIT" /\ UNCHANGED wait_set
     ELSE IF wait_set.pruned
     THEN ret' = "RCL_RET_ERROR" /\ UNCHANGED wait_set
     ELSE IF ~(wait_set.current_guard_condition_offset
                 < wait_set.size_of_guard_conditions)
     THEN ret' = "RCL_RET_WAIT_SET_FULL" /\ UNCHANGED wait_set
     ELSE /\ ret' = "RCL_RET_OK"
          /\ wait_set' =
               [wait_set EXCEPT
                  !.guard_conditions[
                      wait_set.current_guard_condition_offset + 1] = g,
                  !.current_guard_condition_offset = @ + 1]
  /\ arg' = 0 /\ old' = <<>>
  /\ UNCHANGED <<env, gc_fresh, sub_calls, sub_fresh>>

\* Variant: a clear gives the storage of the set back.
rcl_wait_set_clear_guard_conditions_FreesSet ==
  /\ Call("clear_guard_conditions")
  /\ IF IsZeroInitialized(wait_set)
     THEN /\ ret' = "RCL_RET_NOT_INIT"
          /\ UNCHANGED <<wait_set, gc_calls, gc_fresh>>
     ELSE /\ ret' = "RCL_RET_OK"
          /\ wait_set' =
               [wait_set EXCEPT
                  !.guard_conditions = <<>>,
                  !.size_of_guard_conditions = 0,
                  !.current_guard_condition_offset = 0,
                  !.pruned = FALSE]
          /\ gc_calls' = <<>> /\ gc_fresh' = "clear"
  /\ arg' = 0 /\ old' = <<>>
  /\ UNCHANGED <<env, sub_calls, sub_fresh>>

rcl_wait_set_clear_guard_conditions ==
  /\ Call("clear_guard_conditions")
  /\ IF IsZeroInitialized(wait_set)
     THEN /\ ret' = "RCL_RET_NOT_INIT"
          /\ UNCHANGED <<wait_set, gc_calls, gc_fresh>>
     ELSE /\ ret' = "RCL_RET_OK"
          /\ wait_set' =
               [wait_set EXCEPT
                  !.guard_conditions =
                     NullArray(wait_set.size_of_guard_conditions),
                  !.current_guard_condition_offset = 0,
                  !.pruned = FALSE]
          /\ gc_calls' = <<>> /\ gc_fresh' = "clear"
  /\ arg' = 0 /\ old' = <<>>
  /\ UNCHANGED <<env, sub_calls, sub_fresh>>

\* Variant: a resize to the size the set already has returns at once.
rcl_wait_set_resize_guard_conditions_EarlyReturn(size) ==
  /\ Call("resize_guard_conditions")
  /\ ret' = "RCL_RET_OK"
  /\ IF size = wait_set.size_of_guard_conditions
     THEN UNCHANGED <<wait_set, gc_calls, gc_fresh>>
     ELSE /\ wait_set' =
               [wait_set EXCEPT
                  !.guard_conditions = NullArray(size),
                  !.size_of_guard_conditions = size,
                  !.current_guard_condition_offset = 0,
                  !.pruned = FALSE]
          /\ gc_calls' = <<>> /\ gc_fresh' = "resize"
  /\ arg' = size
  /\ old' = <<wait_set.size_of_guard_conditions,
             wait_set.current_guard_condition_offset>>
  /\ UNCHANGED <<env, sub_calls, sub_fresh>>

rcl_wait_set_resize_guard_conditions(size) ==
  /\ Call("resize_guard_conditions")
  /\ ret' = "RCL_RET_OK"
  /\ wait_set' =
       [wait_set EXCEPT
          !.guard_conditions = NullArray(size),
          !.size_of_guard_conditions = size,
          !.current_guard_condition_offset = 0,
          !.pruned = FALSE]
  /\ gc_calls' = <<>> /\ gc_fresh' = "resize"
  /\ arg' = size
  /\ old' = <<wait_set.size_of_guard_conditions,
             wait_set.current_guard_condition_offset>>
  /\ UNCHANGED <<env, sub_calls, sub_fresh>>

\* ------------------------------------------------------------- rcl_wait
\* Variant: the ready items are moved to the front of the array.
Prune_Compacts(array, ready) ==
  LET kept == SelectSeq(array, LAMBDA x : x \in ready) IN
  kept \o NullArray(Len(array) - Len(kept))

\* Items that are not ready are set to NULL, the others left untouched.
Prune(array, ready) ==
  [i \in DOMAIN array |-> IF array[i] \in ready THEN array[i] ELSE NULL]

\* Variant: a trigger stays set after the wait that reported it.
UnusedTriggers_KeepsAll(ws) == triggered

\* The triggers left when a wait on ws returns: those of the guard
\* conditions in ws have been reported (or pruned) and are used up.
UnusedTriggers(ws) == triggered \ PresentGcs(ws)

\* Variant: the triggered guard conditions are not taken as ready.
WaitReturn_IgnoresTriggers(R) ==
  LET ready == R IN
  /\ op' = "wait"
  /\ ret' = IF ready # {} THEN "RCL_RET_OK" ELSE "RCL_RET_TIMEOUT"
  /\ reported' = ready
  /\ wait_set' =
       [wait_set EXCEPT
          !.subscriptions = Prune(@, ready),
          !.guard_conditions = Prune(@, ready),
          !.pruned = TRUE]
  /\ triggered' = UnusedTriggers(wait_set)
  /\ blocked' = FALSE
  /\ arg' = 0 /\ old' = <<>>
  /\ UNCHANGED guard_condition

\* Return from rmw_wait, which found the subscriptions R (messages can be
\* taken) and the triggered guard conditions of the wait set ready: the sets
\* are pruned, the triggers reported to this wait are consumed.
WaitReturn(R) ==
  LET ready == R \cup (PresentGcs(wait_set) \cap triggered) IN
  /\ op' = "wait"
  /\ ret' = IF ready # {} THEN "RCL_RET_OK" ELSE "RCL_RET_TIMEOUT"
  /\ reported' = ready
  /\ wait_set' =
       [wait_set EXCEPT
          !.subscriptions = Prune(@, ready),
          !.guard_conditions = Prune(@, ready),
          !.pruned = TRUE]
  /\ triggered' = UnusedTriggers(wait_set)
  /\ blocked' = FALSE
  /\ arg' = 0 /\ old' = <<>>
  /\ UNCHANGED guard_condition

\* Variant: the check for items comes before the zero initialized check.
rcl_wait_EmptyFirst(t, R) ==
  /\ ~blocked
  /\ timeout' = t
  /\ IF PresentSubs(wait_set) \cup PresentGcs(wait_set) = {}
     THEN /\ op' = "wait" /\ ret' = "RCL_RET_WAIT_SET_EMPTY"
          /\ reported' = {} /\ arg' = 0 /\ old' = <<>>
          /\ UNCHANGED <<wait_set, env, blocked, ghost>>
     ELSE /\ sub_calls' = <<>> /\ sub_fresh' = "no"
          /\ gc_calls' = <<>> /\ gc_fresh' = "no"
          /\ IF t = "zero"
             THEN WaitReturn(R \cap PresentSubs(wait_set))
             ELSE /\ blocked' = TRUE
                  /\ op' = "wait" /\ ret' = "blocked"
                  /\ reported' = {} /\ arg' = 0 /\ old' = <<>>
                  /\ UNCHANGED <<wait_set, env>>

\* Variant: a zero timeout is passed on as a period to block for.
rcl_wait_ZeroBlocks(t, R) ==
  /\ ~blocked
  /\ timeout' = t
  /\ IF IsZeroInitialized(wait_set)
     THEN /\ op' = "wait" /\ ret' = "RCL_RET_NOT_INIT"
          /\ reported' = {} /\ arg' = 0 /\ old' = <<>>
          /\ UNCHANGED <<wait_set, env, blocked, ghost>>
     ELSE IF PresentSubs(wait_set) \cup PresentGcs(wait_set) = {}
     THEN /\ op' = "wait" /\ ret' = "RCL_RET_WAIT_SET_EMPTY"
          /\ reported' = {} /\ arg' = 0 /\ old' = <<>>
          /\ UNCHANGED <<wait_set, env, blocked, ghost>>
     ELSE /\ sub_calls' = <<>> /\ sub_fresh' = "no"
          /\ gc_calls' = <<>> /\ gc_fresh' = "no"
          /\ blocked' = TRUE
          /\ op' = "wait" /\ ret' = "blocked"
          /\ reported' = {} /\ arg' = 0 /\ old' = <<>>
          /\ UNCHANGED <<wait_set, env>>

\* RCL_RET_NOT_INIT on the zero initialized wait set, RCL_RET_WAIT_SET_EMPTY
\* when the wait set contains no (non-NULL) items.
\* The call of rcl_wait up to the point where it blocks in the middleware;
\* with a zero timeout it only checks what is ready (R, and the triggered
\* guard conditions) and returns in the same step.
rcl_wait(t, R) ==
  /\ ~blocked
  /\ timeout' = t
  /\ IF IsZeroInitialized(wait_set)
     THEN /\ op' = "wait" /\ ret' = "RCL_RET_NOT_INIT"
          /\ reported' = {} /\ arg' = 0 /\ old' = <<>>
          /\ UNCHANGED <<wait_set, env, blocked, ghost>>
     ELSE IF PresentSubs(wait_set) \cup PresentGcs(wait_set) = {}
     THEN /\ op' = "wait" /\ ret' = "RCL_RET_WAIT_SET_EMPTY"
          /\ reported' = {} /\ arg' = 0 /\ old' = <<>>
          /\ UNCHANGED <<wait_set, env, blocked, ghost>>
     ELSE /\ sub_calls' = <<>> /\ sub_fresh' = "no"
          /\ gc_calls' = <<>> /\ gc_fresh' = "no"
          /\ IF t = "zero"
             THEN WaitReturn(R \cap PresentSubs(wait_set))
             ELSE /\ blocked' = TRUE
                  /\ op' = "wait" /\ ret' = "blocked"
                  /\ reported' = {} /\ arg' = 0 /\ old' = <<>>
                  /\ UNCHANGED <<wait_set, env>>

\* rmw_wait wakes up because something in the wait set is ready.
rcl_wait_ready(R) ==
  /\ blocked
  /\ R \subseteq PresentSubs(wait_set)
  /\ R \cup (PresentGcs(wait_set) \cap triggered) # {}
  /\ WaitReturn(R)
  /\ UNCHANGED <<timeout, ghost>>

\* Variant: on a timeout the function returns before the arrays are pruned.
rcl_wait_timeout_NoPrune ==
  /\ blocked
  /\ timeout = "positive"
  /\ PresentGcs(wait_set) \cap triggered = {}
  /\ op' = "wait" /\ ret' = "RCL_RET_TIMEOUT"
  /\ reported' = {} /\ arg' = 0 /\ old' = <<>>
  /\ blocked' = FALSE
  /\ wait_set' = [wait_set EXCEPT !.pruned = TRUE]
  /\ UNCHANGED <<env, timeout, ghost>>

\* Variant: a blocked wait gives up after some time whatever its timeout.
rcl_wait_timeout_AnyTimeout ==
  /\ blocked
  /\ PresentGcs(wait_set) \cap triggered = {}
  /\ WaitReturn({})
  /\ UNCHANGED <<timeout, ghost>>

\* The period of time has elapsed and nothing became ready.
rcl_wait_timeout ==
  /\ blocked
  /\ timeout = "positive"
  /\ PresentGcs(wait_set) \cap triggered = {}
  /\ WaitReturn({})
  /\ UNCHANGED <<timeout, ghost>>

\* Variant: a finalized guard condition can be initialized again.
rcl_guard_condition_init_AfterFini(g) ==
  /\ Call("guard_condition_init")
  /\ IF guard_condition[g] # "initialized"
     THEN /\ ret' = "RMW_RET_OK"
          /\ guard_condition' = [guard_condition EXCEPT ![g] = "initialized"]
     ELSE /\ ret' = "RMW_RET_ERROR"
          /\ UNCHANGED guard_condition
  /\ UNCHANGED <<wait_set, triggered, ghost>> /\ arg' = 0 /\ old' = <<>>

\* ------------------------------------------------------ guard condition
\* Lifecycle uninitialized -> initialized -> finalized.  init and fini are
\* not thread-safe: they are calls of the owner thread.
rcl_guard_condition_init(g) ==
  /\ Call("guard_condition_init")
  /\ IF guard_condition[g] = "uninitialized"
     THEN /\ ret' = "RMW_RET_OK"
          /\ guard_condition' = [guard_condition EXCEPT ![g] = "initialized"]
     ELSE /\ ret' = "RMW_RET_ERROR"
          /\ UNCHANGED guard_condition
  /\ UNCHANGED <<wait_set, triggered, ghost>> /\ arg' = 0 /\ old' = <<>>

rcl_guard_condition_fini(g) ==
  /\ Call("guard_condition_fini")
  /\ IF guard_condition[g] = "initialized"
     THEN /\ ret' = "RMW_RET_OK"
          /\ guard_condition' = [guard_condition EXCEPT ![g] = "finalized"]
          /\ triggered' = triggered \ {g}
     ELSE /\ ret' = "RMW_RET_ERROR"
          /\ UNCHANGED <<guard_condition, triggered>>
  /\ UNCHANGED <<wait_set, ghost>> /\ arg' = 0 /\ old' = <<>>

\* Variant: a trigger flips the state of the guard condition, so that a
\* second trigger takes the first one back.
rcl_trigger_guard_condition_Toggles(g) ==
  /\ op' = "trigger"
  /\ reported' = {}
  /\ arg' = 0 /\ old' = <<>>
  /\ timeout' = IF blocked THEN timeout ELSE "none"
  /\ IF guard_condition[g] = "initialized"
     THEN /\ ret' = "RMW_RET_OK"
          /\ triggered' = IF g \in triggered
                          THEN triggered \ {g} ELSE triggered \cup {g}
     ELSE ret' = "RMW_RET_ERROR" /\ UNCHANGED triggered
  /\ UNCHANGED <<wait_set, guard_condition, blocked, ghost>>

\* Callable from any thread, also while another thread is blocked in rcl_wait.
rcl_trigger_guard_condition(g) ==
  /\ op' = "trigger"
  /\ reported' = {}
  /\ arg' = 0 /\ old' = <<>>
  /\ timeout' = IF blocked THEN timeout ELSE "none"
  /\ IF guard_condition[g] = "initialized"
     THEN ret' = "RMW_RET_OK" /\ triggered' = triggered \cup {g}
     ELSE ret' = "RMW_RET_ERROR" /\ UNCHANGED triggered
  /\ UNCHANGED <<wait_set, guard_condition, blocked, ghost>>

Next ==
  \/ \E ns \in SubSizes, ng \in GcSizes : rcl_wait_set_init(ns, ng)
  \/ rcl_wait_set_fini
  \/ \E s \in Subs : rcl_wait_set_add_subscription(s)
  \/ rcl_wait_set_clear_subscriptions
  \/ \E n \in SubSizes : rcl_wait_set_resize_subscriptions(n)
  \/ \E g \in Gcs : rcl_wait_set_add_guard_condition(g)
  \/ rcl_wait_set_clear_guard_conditions
  \/ \E n \in GcSizes : rcl_wait_set_resize_guard_conditions(n)
  \/ \E t \in Timeouts, R \in SUBSET Subs : rcl_wait(t, R)
  \/ \E R \in SUBSET Subs : rcl_wait_ready(R)
  \/ rcl_wait_timeout
  \/ \E g \in Gcs : rcl_guard_condition_init(g)
  \/ \E g \in Gcs : rcl_guard_condition_fini(g)
  \/ \E g \in Gcs : rcl_trigger_guard_condition(g)

Spec == Init /\ [][Next]_vars

\* rmw_wait wakes a blocked rcl_wait up when a guard condition of its wait
\* set has been triggered.
WakeOnTrigger ==
  \E R \in SUBSET Subs :
    /\ PresentGcs(wait_set) \cap triggered # {}
    /\ rcl_wait_ready(R)

LiveSpec == Init /\ [][Next]_vars /\ WF_vars(WakeOnTrigger)

\* ==================================================================== claims
Present(ws) == PresentSubs(ws) \cup PresentGcs(ws)
Capacity(ws) == ws.size_of_subscriptions + ws.size_of_guard_conditions
AllNull(array) == \A i \in DOMAIN array : array[i] = NULL
WaitReturned == op = "wait" /\ ret \in {"RCL_RET_OK", "RCL_RET_TIMEOUT"}

\* C1: when a thread is blocked in rcl_wait with a NULL (indefinite) timeout
\* on a wait set holding guard condition g and g is triggered, the wait
\* eventually returns RCL_RET_OK with g still in its slot and every slot
\* whose item was not reported ready set to NULL.
C1_TriggerWakesWait ==
  \A g \in Gcs :
    (blocked /\ timeout = "indefinite" /\ g \in PresentGcs(wait_set)
       /\ g \in triggered)
    ~> (/\ ~blocked /\ op = "wait" /\ timeout = "indefinite"
        /\ ret = "RCL_RET_OK"
        /\ g \in PresentGcs(wait_set)
        /\ Present(wait_set) \subseteq reported)

\* An indefinite wait on a subscription and G1 has returned because G1 was
\* triggered: G1 is in its slot, the subscription's slot is NULL.
C1_Witness ==
  /\ ~blocked /\ op = "wait" /\ timeout = "indefinite" /\ ret = "RCL_RET_OK"
  /\ reported = {"G1"}
  /\ wait_set.guard_conditions = <<"G1">>
  /\ wait_set.current_subscription_offset >= 1
  /\ AllNull(wait_set.subscriptions)

\* C2: a step in which rcl_wait returns from the middleware keeps, at every
\* index of both arrays, the item that was there if and only if it was
\* reported ready and sets it to NULL otherwise; the arrays keep their length
\* and the sizes do not change.
C2_PruneInPlace ==
  [][(op' = "wait" /\ ret' \in {"RCL_RET_OK", "RCL_RET_TIMEOUT"}) =>
       /\ wait_set'.size_of_subscriptions = wait_set.size_of_subscriptions
       /\ wait_set'.size_of_guard_conditions
            = wait_set.size_of_guard_conditions
       /\ DOMAIN wait_set'.subscriptions = DOMAIN wait_set.subscriptions
       /\ DOMAIN wait_set'.guard_conditions
            = DOMAIN wait_set.guard_conditions
       /\ \A i \in DOMAIN wait_set.subscriptions :
            wait_set'.subscriptions[i] =
              IF wait_set.subscriptions[i] \in reported'
              THEN wait_set.subscriptions[i] ELSE NULL
       /\ \A i \in DOMAIN wait_set.guard_conditions :
            wait_set'.guard_conditions[i] =
              IF wait_set.guard_conditions[i] \in reported'
              THEN wait_set.guard_conditions[i] ELSE NULL
       /\ reported' \subseteq Present(wait_set)
    ]_vars

\* subscriptions = [S1, S2], only S2 ready: after the wait [NULL, S2].
C2_Witness ==
  /\ WaitReturned
  /\ reported = {"S2"}
  /\ wait_set.current_subscription_offset = 2
  /\ wait_set.subscriptions[1] = NULL
  /\ wait_set.subscriptions[2] = "S2"

\* C3: when rcl_wait has returned from the middleware, it returned
\* RCL_RET_OK exactly when some slot of either array is not NULL, and
\* RCL_RET_TIMEOUT only with every slot NULL.
C3_OutcomeAgreesWithContents ==
  WaitReturned =>
    /\ ret = "RCL_RET_OK" <=> Present(wait_set) # {}
    /\ ret = "RCL_RET_TIMEOUT" =>
         /\ AllNull(wait_set.subscriptions)
         /\ AllNull(wait_set.guard_conditions)

\* A wait with a timeout elapsed on a wait set holding items: all pruned.
C3_Witness ==
  /\ op = "wait" /\ ret = "RCL_RET_TIMEOUT" /\ timeout = "positive"
  /\ wait_set.current_subscription_offset >= 1
  /\ wait_set.current_guard_condition_offset >= 1
  /\ Present(wait_set) = {}

\* C4 as stated: rcl_wait on a wait set that is zero initialized or whose
\* two sizes add up to 0 returns RCL_RET_WAIT_SET_EMPTY without blocking.
C4_Original ==
  /\ (IsZeroInitialized(wait_set) \/ Capacity(wait_set) = 0) => ~blocked
  /\ (op = "wait" /\ (IsZeroInitialized(wait_set) \/ Capacity(wait_set) = 0))
       => ret = "RCL_RET_WAIT_SET_EMPTY"

\* C4: rcl_wait on a zero initialized wait set returns RCL_RET_NOT_INIT, and
\* on an initialized wait set whose two sizes add up to 0 it returns
\* RCL_RET_WAIT_SET_EMPTY; in both cases nothing is handed to the middleware
\* (nothing is pruned or reported) and the caller does not block.
C4_NotInitOrEmpty ==
  /\ (IsZeroInitialized(wait_set) \/ Capacity(wait_set) = 0) =>
       ~blocked /\ ~wait_set.pruned
  /\ (op = "wait" /\ IsZeroInitialized(wait_set))
       => ret = "RCL_RET_NOT_INIT" /\ reported = {}
  /\ (op = "wait" /\ ~IsZeroInitialized(wait_set) /\ Capacity(wait_set) = 0)
       => ret = "RCL_RET_WAIT_SET_EMPTY" /\ reported = {}

C4_Witness ==
  /\ op = "wait" /\ ret = "RCL_RET_NOT_INIT"
  /\ IsZeroInitialized(wait_set)

\* The first size calls of add stored their handles at 0..size-1 in call
\* order, the next ones failed with RCL_RET_WAIT_SET_FULL.
FilledInOrder(array, size, offset, calls) ==
  /\ offset = Min(Len(calls), size)
  /\ DOMAIN array = 1..size
  /\ \A i \in 1..size :
       array[i] = IF i <= Len(calls) THEN calls[i] ELSE NULL

AddOutcome(calls, size) ==
  IF Len(calls) <= size THEN "RCL_RET_OK" ELSE "RCL_RET_WAIT_SET_FULL"

\* C5: on a wait set whose subscription set was just initialized or cleared
\* with size h (and that is still initialized), the first h calls of
\* rcl_wait_set_add_subscription return RCL_RET_OK and store their handles at
\* indices 0..h-1 in call order, and the calls after them return
\* RCL_RET_WAIT_SET_FULL; the same holds for the guard condition set,
\* whatever is done to the other set in between.
C5_AddUpToCapacity ==
  /\ (sub_fresh \in {"init", "clear"} /\ ~IsZeroInitialized(wait_set)) =>
       /\ FilledInOrder(wait_set.subscriptions,
                        wait_set.size_of_subscriptions,
                        wait_set.current_subscription_offset, sub_calls)
       /\ op = "add_subscription" =>
            ret = AddOutcome(sub_calls, wait_set.size_of_subscriptions)
  /\ (gc_fresh \in {"init", "clear"} /\ ~IsZeroInitialized(wait_set)) =>
       /\ FilledInOrder(wait_set.guard_conditions,
                        wait_set.size_of_guard_conditions,
                        wait_set.current_guard_condition_offset, gc_calls)
       /\ op = "add_guard_condition" =>
            ret = AddOutcome(gc_calls, wait_set.size_of_guard_conditions)

\* Size 2: S2 then S1 were stored in that order, the third call failed.
C5_Witness ==
  /\ sub_fresh \in {"init", "clear"}
  /\ wait_set.size_of_subscriptions = 2
  /\ sub_calls = <<"S2", "S1", "S1">>
  /\ wait_set.subscriptions = <<"S2", "S1">>
  /\ op = "add_subscription" /\ ret = "RCL_RET_WAIT_SET_FULL"

\* C6: rcl_wait_set_fini returns RCL_RET_OK and leaves the wait set equal to
\* the zero initialized wait set from every state it is called in (also an
\* already zero initialized one); a call of rcl_wait_set_init or
\* rcl_wait_set_fini made right after it returns RCL_RET_OK.
C6_FiniGivesEmpty ==
  /\ [](op = "fini" =>
          /\ ret = "RCL_RET_OK"
          /\ wait_set = rcl_get_zero_initialized_wait_set)
  /\ [][(op = "fini" /\ op' \in {"init", "fini"}) => ret' = "RCL_RET_OK"]_vars

\* fini has returned and left the zero initialized wait set.
C6_Witness ==
  /\ op = "fini" /\ ret = "RCL_RET_OK"
  /\ wait_set = rcl_get_zero_initialized_wait_set
  /\ sub_fresh = "no" /\ gc_fresh = "no"

\* C7: rcl_wait_set_init returns RCL_RET_OK only when called on the zero
\* initialized wait set; called on a wait set whose storage is not NULL it
\* returns RCL_RET_ALREADY_INIT.
C7_InitOnlyFromEmpty ==
  [][op' = "init" =>
       /\ ret' = "RCL_RET_OK" => IsZeroInitialized(wait_set)
       /\ (wait_set.subscriptions # <<>> \/ wait_set.guard_conditions # <<>>)
            => ret' = "RCL_RET_ALREADY_INIT"
    ]_vars

\* A second init on a wait set holding a subscription.
C7_Witness ==
  /\ op = "init" /\ ret = "RCL_RET_ALREADY_INIT"
  /\ wait_set.current_subscription_offset >= 1

\* C8: add and clear, for subscriptions and for guard conditions, return
\* RCL_RET_NOT_INIT when called on a zero initialized wait set (add does not
\* return RCL_RET_WAIT_SET_FULL there).
C8_NotInitOnEmpty ==
  [][(IsZeroInitialized(wait_set)
        /\ op' \in {"add_subscription", "add_guard_condition",
                    "clear_subscriptions", "clear_guard_conditions"})
       => ret' = "RCL_RET_NOT_INIT"
    ]_vars

\* add_guard_condition on a finalized wait set.
C8_Witness ==
  /\ op = "add_guard_condition" /\ ret = "RCL_RET_NOT_INIT"
  /\ IsZeroInitialized(wait_set)
  /\ guard_condition["G1"] = "initialized"

\* C9: a clear that returns RCL_RET_OK leaves every entry of its set NULL and
\* the offset of the set 0 and does not change the size of the set; the
\* first add of that kind after it stores its handle at index 0.
C9_ClearResets ==
  /\ []((op = "clear_subscriptions" /\ ret = "RCL_RET_OK") =>
          /\ AllNull(wait_set.subscriptions)
          /\ wait_set.current_subscription_offset = 0)
  /\ []((op = "clear_guard_conditions" /\ ret = "RCL_RET_OK") =>
          /\ AllNull(wait_set.guard_conditions)
          /\ wait_set.current_guard_condition_offset = 0)
  /\ []((sub_fresh = "clear" /\ Len(sub_calls) >= 1
           /\ wait_set.size_of_subscriptions >= 1) =>
          wait_set.subscriptions[1] = sub_calls[1])
  /\ []((gc_fresh = "clear" /\ Len(gc_calls) >= 1
           /\ wait_set.size_of_guard_conditions >= 1) =>
          wait_set.guard_conditions[1] = gc_calls[1])
  /\ [][op' \in {"clear_subscriptions", "clear_guard_conditions"} =>
          /\ wait_set'.size_of_subscriptions = wait_set.size_of_subscriptions
          /\ wait_set'.size_of_guard_conditions
               = wait_set.size_of_guard_conditions
          /\ DOMAIN wait_set'.subscriptions = DOMAIN wait_set.subscriptions
          /\ DOMAIN wait_set'.guard_conditions
               = DOMAIN wait_set.guard_conditions
       ]_vars

\* The subscription set was cleared after a wait (the guard condition set
\* is still as the wait left it) and S2 was then added at index 0.
C9_Witness ==
  /\ sub_fresh = "clear" /\ gc_fresh = "no"
  /\ wait_set.current_guard_condition_offset >= 1
  /\ op = "add_subscription" /\ ret = "RCL_RET_OK"
  /\ sub_calls = <<"S2">>
  /\ wait_set.subscriptions = <<"S2", NULL>>

\* What a resize to size leaves: the set has that size, is all NULL, and the
\* first add after it goes to index 0.
ResizedTo(array, size, offset, fresh, calls) ==
  /\ DOMAIN array = 1..size
  /\ (fresh = "resize" /\ Len(calls) = 0) =>
       AllNull(array) /\ offset = 0
  /\ (fresh = "resize" /\ Len(calls) >= 1 /\ size >= 1) =>
       array[1] = calls[1]

\* C10 as stated: after a resize to n the set has size n, is all NULL and
\* the next add goes to index 0; after a resize to 0 the next add of that
\* kind returns RCL_RET_WAIT_SET_FULL.
C10_Original ==
  /\ op = "resize_subscriptions" =>
       ret = "RCL_RET_OK" /\ wait_set.size_of_subscriptions = arg
  /\ op = "resize_guard_conditions" =>
       ret = "RCL_RET_OK" /\ wait_set.size_of_guard_conditions = arg
  /\ ResizedTo(wait_set.subscriptions, wait_set.size_of_subscriptions,
               wait_set.current_subscription_offset, sub_fresh, sub_calls)
  /\ ResizedTo(wait_set.guard_conditions, wait_set.size_of_guard_conditions,
               wait_set.current_guard_condition_offset, gc_fresh, gc_calls)
  /\ (sub_fresh = "resize" /\ wait_set.size_of_subscriptions = 0
        /\ op = "add_subscription") => ret = "RCL_RET_WAIT_SET_FULL"
  /\ (gc_fresh = "resize" /\ wait_set.size_of_guard_conditions = 0
        /\ op = "add_guard_condition") => ret = "RCL_RET_WAIT_SET_FULL"

\* C10: after a resize to n the set has size n, is all NULL and the next add
\* of that kind goes to index 0, whatever the set held before; after a
\* resize to 0 the next add of that kind returns RCL_RET_WAIT_SET_FULL,
\* unless the wait set is then zero initialized (it was never initialized,
\* only resized to 0), where the add returns RCL_RET_NOT_INIT.
C10_ResizeResets ==
  /\ op = "resize_subscriptions" =>
       ret = "RCL_RET_OK" /\ wait_set.size_of_subscriptions = arg
  /\ op = "resize_guard_conditions" =>
       ret = "RCL_RET_OK" /\ wait_set.size_of_guard_conditions = arg
  /\ ResizedTo(wait_set.subscriptions, wait_set.size_of_subscriptions,
               wait_set.current_subscription_offset, sub_fresh, sub_calls)
  /\ ResizedTo(wait_set.guard_conditions, wait_set.size_of_guard_conditions,
               wait_set.current_guard_condition_offset, gc_fresh, gc_calls)
  /\ (sub_fresh = "resize" /\ wait_set.size_of_subscriptions = 0
        /\ op = "add_subscription") =>
       ret = IF IsZeroInitialized(wait_set)
             THEN "RCL_RET_NOT_INIT" ELSE "RCL_RET_WAIT_SET_FULL"
  /\ (gc_fresh = "resize" /\ wait_set.size_of_guard_conditions = 0
        /\ op = "add_guard_condition") =>
       ret = IF IsZeroInitialized(wait_set)
             THEN "RCL_RET_NOT_INIT" ELSE "RCL_RET_WAIT_SET_FULL"

\* An initialized wait set whose subscription set was resized to 0: the add
\* that followed found the set full.
C10_Witness ==
  /\ sub_fresh = "resize" /\ wait_set.size_of_subscriptions = 0
  /\ ~IsZeroInitialized(wait_set)
  /\ op = "add_subscription" /\ ret = "RCL_RET_WAIT_SET_FULL"

\* A resize step whose size argument is the size the set already has.
SameSizeResizeSubscriptions ==
  /\ op' = "resize_subscriptions"
  /\ arg' = wait_set.size_of_subscriptions

SameSizeResizeGuardConditions ==
  /\ op' = "resize_guard_conditions"
  /\ arg' = wait_set.size_of_guard_conditions

\* C11 as stated: a resize to the size the set already has returns
\* RCL_RET_OK and leaves the whole wait set as it was.
C11_Original ==
  [][(SameSizeResizeSubscriptions \/ SameSizeResizeGuardConditions) =>
       ret' = "RCL_RET_OK" /\ wait_set' = wait_set]_vars

\* C11: a resize to the size the set already has returns RCL_RET_OK and
\* leaves both sizes, the other set with its offset, and the allocator as
\* they were; the resized set is all NULL afterwards, its offset is 0 and
\* pruned is false, as after a clear.
C11_SameSizeResizeClears ==
  /\ [][SameSizeResizeSubscriptions =>
          /\ ret' = "RCL_RET_OK"
          /\ wait_set' =
               [wait_set EXCEPT
                  !.subscriptions =
                     NullArray(wait_set.size_of_subscriptions),
                  !.current_subscription_offset = 0,
                  !.pruned = FALSE]
       ]_vars
  /\ [][SameSizeResizeGuardConditions =>
          /\ ret' = "RCL_RET_OK"
          /\ wait_set' =
               [wait_set EXCEPT
                  !.guard_conditions =
                     NullArray(wait_set.size_of_guard_conditions),
                  !.current_guard_condition_offset = 0,
                  !.pruned = FALSE]
       ]_vars

\* The guard condition set of size 1 held an entry (offset 1) and was resized
\* to 1: it is all NULL now, while the subscription set still holds S1.
C11_Witness ==
  /\ op = "resize_guard_conditions" /\ ret = "RCL_RET_OK"
  /\ arg = 1 /\ old = <<1, 1>>
  /\ wait_set.guard_conditions = <<NULL>>
  /\ wait_set.current_guard_condition_offset = 0
  /\ wait_set.subscriptions = <<"S1", NULL>>
  /\ wait_set.current_subscription_offset = 1

\* C12: a guard condition goes uninitialized -> initialized -> finalized and
\* stays finalized; only init leaves uninitialized and only fini leaves
\* initialized.  A trigger returns RMW_RET_OK exactly when the guard
\* condition is initialized and RMW_RET_ERROR otherwise, and never blocks;
\* a fini of a guard condition that is not initialized returns RMW_RET_ERROR.
C12_GuardConditionLifecycle ==
  /\ [][\A g \in Gcs :
          /\ guard_condition[g] = "finalized" =>
               guard_condition'[g] = "finalized"
          /\ (guard_condition[g] = "uninitialized"
                /\ guard_condition'[g] # "uninitialized") =>
               /\ guard_condition'[g] = "initialized"
               /\ op' = "guard_condition_init" /\ ret' = "RMW_RET_OK"
          /\ (guard_condition[g] = "initialized"
                /\ guard_condition'[g] # "initialized") =>
               /\ guard_condition'[g] = "finalized"
               /\ op' = "guard_condition_fini" /\ ret' = "RMW_RET_OK"
       ]_vars
  /\ [][op' = "trigger" =>
          /\ ret' \in {"RMW_RET_OK", "RMW_RET_ERROR"}
          /\ ret' = "RMW_RET_OK" =>
               \E g \in Gcs : guard_condition[g] = "initialized"
          /\ ret' = "RMW_RET_ERROR" =>
               \E g \in Gcs : guard_condition[g] # "initialized"
          /\ blocked' = blocked
          /\ guard_condition' = guard_condition
       ]_vars
  /\ [][(op' = "guard_condition_fini"
           /\ \A g \in Gcs : guard_condition[g] # "initialized") =>
          ret' = "RMW_RET_ERROR" /\ guard_condition' = guard_condition
       ]_vars
  /\ [][(op' = "guard_condition_init"
           /\ \A g \in Gcs : guard_condition[g] = "finalized") =>
          ret' = "RMW_RET_ERROR" /\ guard_condition' = guard_condition
       ]_vars

\* The guard condition has been finalized, and the trigger that followed
\* has failed.
C12_Witness ==
  /\ guard_condition["G1"] = "finalized"
  /\ op = "trigger" /\ ret = "RMW_RET_ERROR"
  /\ "G1" \notin triggered

ZeroWait == op' = "wait" /\ timeout' = "zero"

\* What a zero timeout wait gives when it looks at the items: RCL_RET_TIMEOUT
\* with every slot NULL when nothing is ready, RCL_RET_OK with exactly the
\* ready items left otherwise; the ready guard conditions are the triggered
\* ones of the set.
ZeroWaitOutcome ==
  /\ ret' \in {"RCL_RET_OK", "RCL_RET_TIMEOUT"}
  /\ ret' = "RCL_RET_TIMEOUT" <=> reported' = {}
  /\ reported' \subseteq Present(wait_set)
  /\ reported' \cap Gcs = PresentGcs(wait_set) \cap triggered
  /\ Present(wait_set') = reported'

\* C14 as stated: a zero timeout wait never blocks, and on a wait set whose
\* sizes are not both 0 it returns RCL_RET_TIMEOUT or RCL_RET_OK.
C14_Original ==
  [][ZeroWait => /\ ~blocked'
                 /\ Capacity(wait_set) > 0 => ZeroWaitOutcome]_vars

\* C14: a zero timeout wait never blocks; on a wait set that holds at least
\* one non-NULL item it returns RCL_RET_TIMEOUT with every slot NULL when
\* nothing is ready and RCL_RET_OK with exactly the ready items left
\* otherwise; on a wait set with room but no item it returns
\* RCL_RET_WAIT_SET_EMPTY and changes nothing.
C14_ZeroTimeoutPolls ==
  [][ZeroWait =>
       /\ ~blocked'
       /\ Present(wait_set) # {} => ZeroWaitOutcome
       /\ (Present(wait_set) = {} /\ Capacity(wait_set) > 0) =>
            ret' = "RCL_RET_WAIT_SET_EMPTY" /\ wait_set' = wait_set
     ]_vars

\* A zero timeout wait on a set that held S1 and the untriggered G1 has
\* returned RCL_RET_TIMEOUT with both slots pruned.
C14_Witness ==
  /\ op = "wait" /\ timeout = "zero" /\ ret = "RCL_RET_TIMEOUT"
  /\ ~blocked /\ reported = {}
  /\ wait_set.current_subscription_offset = 1
  /\ wait_set.current_guard_condition_offset = 1
  /\ AllNull(wait_set.subscriptions) /\ AllNull(wait_set.guard_conditions)
  /\ guard_condition["G1"] = "initialized"

C16_ResizeOnZeroInitialized ==
  /\ [][(IsZeroInitialized(wait_set) /\ op' = "resize_subscriptions") =>
          /\ ret' = "RCL_RET_OK"
          /\ wait_set'.size_of_subscriptions = arg'
          /\ wait_set'.subscriptions = NullArray(arg')
          /\ wait_set'.current_subscription_offset = 0
          /\ wait_set'.size_of_guard_conditions = 0
          /\ wait_set'.guard_conditions = <<>>
       ]_vars
  /\ [][(IsZeroInitialized(wait_set) /\ op' = "resize_guard_conditions") =>
          /\ ret' = "RCL_RET_OK"
          /\ wait_set'.size_of_guard_conditions = arg'
          /\ wait_set'.guard_conditions = NullArray(arg')
          /\ wait_set'.current_guard_condition_offset = 0
          /\ wait_set'.size_of_subscriptions = 0
          /\ wait_set'.subscriptions = <<>>
       ]_vars

\* The subscription set of a wait set that was never initialized (no
\* allocator, the other set empty) has been resized from 0 to 2.
C16_Witness ==
  /\ op = "resize_subscriptions" /\ ret = "RCL_RET_OK"
  /\ arg = 2 /\ old = <<0, 0>>
  /\ wait_set.allocator = NULL
  /\ wait_set.subscriptions = <<NULL, NULL>>
  /\ wait_set.size_of_subscriptions = 2
  /\ wait_set.guard_conditions = <<>>
  /\ wait_set.size_of_guard_conditions = 0

\* C17: in every reachable state each array has exactly as many slots as
\* its size field says and its offset lies in 0..size; the sizes change
\* only in a call of init, fini or resize, never in an add, a clear, a wait
\* or a call on a guard condition.
C17_SizesAndOffsets ==
  /\ [](/\ DOMAIN wait_set.subscriptions
             = 1..wait_set.size_of_subscriptions
        /\ wait_set.current_subscription_offset
             \in 0..wait_set.size_of_subscriptions
        /\ DOMAIN wait_set.guard_conditions
             = 1..wait_set.size_of_guard_conditions
        /\ wait_set.current_guard_condition_offset
             \in 0..wait_set.size_of_guard_conditions)
  /\ [][(\/ wait_set'.size_of_subscriptions
              # wait_set.size_of_subscriptions
         \/ wait_set'.size_of_guard_conditions
              # wait_set.size_of_guard_conditions) =>
          op' \in {"init", "fini", "resize_subscriptions",
                   "resize_guard_conditions"}
       ]_vars

\* Both sets were filled up to their size (offsets 2 and 1), and a wait has
\* returned since and pruned them: sizes and offsets are as before it.
C17_Witness ==
  /\ WaitReturned
  /\ wait_set.size_of_subscriptions = 2
  /\ wait_set.current_subscription_offset = 2
  /\ wait_set.size_of_guard_conditions = 1
  /\ wait_set.current_guard_condition_offset = 1
  /\ wait_set.subscriptions = <<NULL, "S2">>
  /\ wait_set.guard_conditions = <<NULL>>

\* The rest of C18, common to both readings: a wait that returns leaves
\* pruned true, an init that succeeds leaves it false, a clear that succeeds
\* leaves it false, and an add to a set that was cleared and not waited on
\* since succeeds exactly when there is room (the wait set not having
\* been brought back to the zero initialized one by resizes to 0).
PrunedSetAndReset ==
  /\ [](WaitReturned => wait_set.pruned)
  /\ []((op = "init" /\ ret = "RCL_RET_OK") => ~wait_set.pruned)
  /\ []((op \in {"clear_subscriptions", "clear_guard_conditions"}
           /\ ret = "RCL_RET_OK") => ~wait_set.pruned)
  /\ [][(op' = "add_subscription" /\ sub_fresh = "clear"
           /\ ~IsZeroInitialized(wait_set)) =>
          ret' = IF wait_set.current_subscription_offset
                      < wait_set.size_of_subscriptions
                 THEN "RCL_RET_OK" ELSE "RCL_RET_WAIT_SET_FULL"]_vars
  /\ [][(op' = "add_guard_condition" /\ gc_fresh = "clear"
           /\ ~IsZeroInitialized(wait_set)) =>
          ret' = IF wait_set.current_guard_condition_offset
                      < wait_set.size_of_guard_conditions
                 THEN "RCL_RET_OK" ELSE "RCL_RET_WAIT_SET_FULL"]_vars

C19_IndefiniteWait ==
  /\ []((op = "wait" /\ timeout = "indefinite") =>
          ret \in {"blocked", "RCL_RET_OK",
                   "RCL_RET_NOT_INIT", "RCL_RET_WAIT_SET_EMPTY"})
  /\ [][(blocked /\ timeout = "indefinite" /\ ~blocked') =>
          /\ op' = "wait" /\ ret' = "RCL_RET_OK"
          /\ reported' # {}
          /\ reported' \subseteq Present(wait_set)
          /\ reported' \cap Gcs = PresentGcs(wait_set) \cap triggered
          /\ Present(wait_set') = reported'
       ]_vars
  /\ [][(blocked /\ timeout = "indefinite") =>
          /\ timeout' = "indefinite"
          /\ blocked' \/ op' = "wait"]_vars

\* An indefinite wait on a set holding S1 and the untriggered G1 has
\* returned because S1 has a message: RCL_RET_OK, G1's slot pruned.
C19_Witness ==
  /\ op = "wait" /\ timeout = "indefinite" /\ ret = "RCL_RET_OK"
  /\ ~blocked
  /\ reported = {"S1"}
  /\ wait_set.subscriptions = <<"S1", NULL>>
  /\ wait_set.current_guard_condition_offset = 1
  /\ wait_set.guard_conditions = <<NULL>>

=============================================================================
